---------------------------- MODULE Spec2Model ----------------------------
(***************************************************************************)
(* A model of the sudoku solver of src/src/main.rs: the Coord successor,   *)
(* the grid views, the backtracking search solve_rec with its call stack,  *)
(* the validator, solve, and the text parser.                              *)
(*                                                                         *)
(* Option<T> is modelled as a tuple: None is <<>> and Some(x) is <<x>>.    *)
(* A Coord is a record [row, col].  A grid is a function from row index to *)
(* a function from column index to Option<u8>, indexed from 0 as the Vecs  *)
(* of the source are.  A HashSet is a set; iterating one takes its         *)
(* elements in an arbitrary order, so every order is a behaviour.          *)
(***************************************************************************)
EXTENDS Integers, Sequences, FiniteSets

VARIABLES
    pc,        \* which operation runs: "solve", "search", "validate", "done", ...
    input,     \* the grid solve is called on (self, left untouched)
    grid,      \* solve's working clone (sudoku.grid)
    stack,     \* the call stack of solve_rec, innermost frame first
    ret,       \* the value the last finished solve_rec call returned
    result,    \* what solve / validate / from_str returned
    text,      \* the text handed to from_str
    edits,     \* how many edits made the text
    start,     \* the coordinate a successor walk starts from
    path       \* the coordinates a successor walk produced so far

vars == <<pc, input, grid, stack, ret, result, text, edits, start, path>>

-----------------------------------------------------------------------------
(* Option<T> *)

None == <<>>

Some(x) == <<x>>

IsSome(o) == o # None

Unwrap(o) == o[1]

-----------------------------------------------------------------------------
(* Coord *)

Idx == 0..8

Digits == 1..9

Coord(r, c) == [row |-> r, col |-> c]

Coords == {Coord(r, c) : r \in Idx, c \in Idx}

\* Coord::next with `self.col < 7` written for `self.col < 8`.
next_short_row(coord) ==
    LET next_col == IF coord.col < 7 THEN coord.col + 1 ELSE 0
        next_row == IF next_col = 0 THEN coord.row + 1 ELSE coord.row
    IN  IF next_row < 9 THEN Some(Coord(next_row, next_col)) ELSE None

\* Coord::next
next(coord) ==
    LET next_col == IF coord.col < 8 THEN coord.col + 1 ELSE 0
        next_row == IF next_col = 0 THEN coord.row + 1 ELSE coord.row
    IN  IF next_row < 9 THEN Some(Coord(next_row, next_col)) ELSE None

-----------------------------------------------------------------------------
(* Sudoku: cell access and the views of a row, a column and a house *)

get(g, coord) == g[coord.row][coord.col]

\* set with row and column exchanged.
set_transposed(g, coord, value) ==
    [g EXCEPT ![coord.col][coord.row] = Some(value)]

set(g, coord, value) ==
    [g EXCEPT ![coord.row][coord.col] = Some(value)]

\* unset that leaves the cell as it is.
unset_forgotten(g, coord) == g

unset(g, coord) ==
    [g EXCEPT ![coord.row][coord.col] = None]

\* filter_map(|&n| n).collect::<HashSet>() over a row of cells
get_row(g, index) ==
    {Unwrap(g[index][c]) : c \in {c \in DOMAIN g[index] : IsSome(g[index][c])}}

get_col(g, index) ==
    {Unwrap(g[r][index]) : r \in {r \in DOMAIN g : IsSome(g[r][index])}}

\* coord is a house coordinate: (2,1) is the bottom-middle house
get_house(g, coord) ==
    LET row_start == coord.row * 3
        row_end   == coord.row * 3 + 3
        col_start == coord.col * 3
        col_end   == coord.col * 3 + 3
        cells == {Coord(r, c) : r \in row_start..(row_end - 1),
                                c \in col_start..(col_end - 1)}
    IN  {Unwrap(get(g, k)) : k \in {k \in cells : IsSome(get(g, k))}}

\* get_possible_numbers that forgets the house
get_possible_numbers_no_house(g, coord) ==
    ((1..9) \ get_row(g, coord.row)) \ get_col(g, coord.col)

get_possible_numbers(g, coord) ==
    LET row   == get_row(g, coord.row)
        col   == get_col(g, coord.col)
        house == get_house(g, Coord(coord.row \div 3, coord.col \div 3))
    IN  (((1..9) \ row) \ col) \ house

-----------------------------------------------------------------------------
(* validate *)

RECURSIVE SetSum(_)
\* Iterator::sum::<u8>() over a HashSet<u8>; a set of distinct values below
\* 10 sums to at most 45, so the u8 never overflows.
SetSum(S) ==
    IF S = {} THEN 0
    ELSE LET x == CHOOSE x \in S : TRUE IN x + SetSum(S \ {x})

\* InvalidSudokuError: a variant is a tuple, its name first
Unsolvable == <<"Unsolvable">>

InvalidRow(n) == <<"InvalidRow", n>>

InvalidCol(n) == <<"InvalidCol", n>>

InvalidHouse(coord) == <<"InvalidHouse", coord>>

\* validate with `> 45` written for `!= 45`.
validate_greater(g) ==
    UNION {
        (IF SetSum(get_row(g, n)) > 45 THEN {InvalidRow(n)} ELSE {})
        \cup (IF SetSum(get_col(g, n)) > 45 THEN {InvalidCol(n)} ELSE {})
        \cup (LET house_coord == Coord(n \div 3, n % 3)
              IN  IF SetSum(get_house(g, house_coord)) > 45
                  THEN {InvalidHouse(house_coord)} ELSE {})
        : n \in 0..8 }

\* validate with the house of n taken as (n / 3, n / 3).
validate_diagonal(g) ==
    UNION {
        (IF SetSum(get_row(g, n)) # 45 THEN {InvalidRow(n)} ELSE {})
        \cup (IF SetSum(get_col(g, n)) # 45 THEN {InvalidCol(n)} ELSE {})
        \cup (LET house_coord == Coord(n \div 3, n \div 3)
              IN  IF SetSum(get_house(g, house_coord)) # 45
                  THEN {InvalidHouse(house_coord)} ELSE {})
        : n \in 0..8 }

\* The set of errors validate collects; Ok(()) is the empty set.
validate(g) ==
    UNION {
        (IF SetSum(get_row(g, n)) # 45 THEN {InvalidRow(n)} ELSE {})
        \cup (IF SetSum(get_col(g, n)) # 45 THEN {InvalidCol(n)} ELSE {})
        \cup (LET house_coord == Coord(n \div 3, n % 3)
              IN  IF SetSum(get_house(g, house_coord)) # 45
                  THEN {InvalidHouse(house_coord)} ELSE {})
        : n \in 0..8 }

\* Result<T, E>: Ok(v) or Err(e); Pending before the operation has returned
Ok(v) == [kind |-> "Ok", value |-> Some(v), error |-> None]

Err(e) == [kind |-> "Err", value |-> None, error |-> Some(e)]

Pending == [kind |-> "Pending", value |-> None, error |-> None]

-----------------------------------------------------------------------------
(* solve and solve_rec *)

\* A frame of solve_rec: its argument, where it stands ("entry": before its
\* first statement; "skip": inside the call of line 126; "loop": inside the
\* for loop of lines 130-137), the candidates the loop has not tried yet,
\* and the grid as it was when the call was entered (kept for the proofs).
Frame(coord, g) ==
    [current_coord |-> coord, at |-> "entry", todo |-> {}, entry |-> g]

Top == Head(stack)

\* The for loop left after its first round.
Todo_first_only ==
    IF Top.at = "entry" THEN get_possible_numbers(grid, Top.current_coord)
    ELSE {}

\* The candidates the for loop of the top frame still has to try: the loop
\* evaluates get_possible_numbers once, when it is entered.
Todo ==
    IF Top.at = "entry" THEN get_possible_numbers(grid, Top.current_coord)
    ELSE Top.todo

\* solve, lines 100-102: clone, then call solve_rec((0,0)).
SolveCall ==
    /\ pc = "solve"
    /\ pc' = "search"
    /\ grid' = input
    /\ stack' = <<Frame(Coord(0, 0), input)>>
    /\ ret' = None
    /\ UNCHANGED <<input, result, text, edits, start, path>>

\* solve_rec, lines 115-121: no next coord; fill the last cell with the
\* first element of the candidate set, if there is one, and return true.
Terminal ==
    /\ pc = "search" /\ stack # <<>>
    /\ Top.at = "entry"
    /\ next(Top.current_coord) = None
    /\ LET cands == get_possible_numbers(grid, Top.current_coord)
       IN  IF cands = {} THEN grid' = grid
           ELSE \E n \in cands : grid' = set(grid, Top.current_coord, n)
    /\ stack' = Tail(stack)
    /\ ret' = Some(TRUE)
    /\ UNCHANGED <<pc, input, result, text, edits, start, path>>

\* solve_rec, lines 124-127: the cell is populated; call solve_rec(next).
Skip ==
    /\ pc = "search" /\ stack # <<>>
    /\ Top.at = "entry"
    /\ next(Top.current_coord) # None
    /\ IsSome(get(grid, Top.current_coord))
    /\ stack' = <<Frame(Unwrap(next(Top.current_coord)), grid),
                  [Top EXCEPT !.at = "skip"]>> \o Tail(stack)
    /\ UNCHANGED <<pc, input, grid, ret, result, text, edits, start, path>>

\* solve_rec, line 126: return what the call on the next coord returned.
SkipReturn ==
    /\ pc = "search" /\ stack # <<>>
    /\ Top.at = "skip"
    /\ ret # None
    /\ stack' = Tail(stack)
    /\ UNCHANGED <<pc, input, grid, ret, result, text, edits, start, path>>

\* solve_rec, lines 130-134: one round of the loop, entered for the first
\* time or resumed after a call that returned false: set the cell to a
\* candidate not tried yet and call solve_rec(next).
Try ==
    /\ pc = "search" /\ stack # <<>>
    /\ \/ /\ Top.at = "entry"
          /\ next(Top.current_coord) # None
          /\ ~IsSome(get(grid, Top.current_coord))
       \/ /\ Top.at = "loop"
          /\ ret = Some(FALSE)
    /\ \E n \in Todo :
          /\ grid' = set(grid, Top.current_coord, n)
          /\ stack' = <<Frame(Unwrap(next(Top.current_coord)), grid'),
                        [Top EXCEPT !.at = "loop", !.todo = Todo \ {n}]>>
                          \o Tail(stack)
    /\ ret' = None
    /\ UNCHANGED <<pc, input, result, text, edits, start, path>>

\* solve_rec, lines 134-136: the call returned true; return true.
Found ==
    /\ pc = "search" /\ stack # <<>>
    /\ Top.at = "loop"
    /\ ret = Some(TRUE)
    /\ stack' = Tail(stack)
    /\ UNCHANGED <<pc, input, grid, ret, result, text, edits, start, path>>

\* solve_rec, lines 137-142: the loop is over (or had nothing to try);
\* unset the cell and return false.
Exhausted ==
    /\ pc = "search" /\ stack # <<>>
    /\ \/ /\ Top.at = "entry"
          /\ next(Top.current_coord) # None
          /\ ~IsSome(get(grid, Top.current_coord))
       \/ /\ Top.at = "loop"
          /\ ret = Some(FALSE)
    /\ Todo = {}
    /\ grid' = unset(grid, Top.current_coord)
    /\ stack' = Tail(stack)
    /\ ret' = Some(FALSE)
    /\ UNCHANGED <<pc, input, result, text, edits, start, path>>

\* solve, lines 104-107: the match on validate.
solve_result(g) ==
    IF validate(g) = {} THEN Ok(g) ELSE Err(Unsolvable)

\* solve, lines 102-107: solve_rec((0,0)) has returned (its value is
\* dropped); validate and return.
SolveReturn ==
    /\ pc = "search" /\ stack = <<>>
    /\ result' = solve_result(grid)
    /\ pc' = "done"
    /\ UNCHANGED <<input, grid, stack, ret, text, edits, start, path>>

-----------------------------------------------------------------------------
(* The grids solve is run on: 9 rows of 9 cells, a cell empty or a digit of *)
(* 1..9.  They are a solved grid with up to MaxBlanks cells of BlankCells   *)
(* emptied and up to MaxChanged cells of ChangeCells overwritten with       *)
(* another digit, and one puzzle with two completions.                      *)

MaxBlanks == 4

MaxChanged == 1

\* A solved grid: each row is the one above shifted by three, each band by one.
Solved ==
    [r \in Idx |-> [c \in Idx |->
        Some(((3 * (r % 3) + (r \div 3) + c) % 9) + 1)]]

\* The cells an input may leave empty, and those it may fill with another
\* digit than Solved has there.
BlankCells ==
    {Coord(0, 0), Coord(0, 4), Coord(1, 1), Coord(4, 0),
     Coord(5, 7), Coord(8, 6), Coord(8, 7), Coord(8, 8)}

ChangeCells == {Coord(8, 7), Coord(8, 8)}

ChangeDigits == {1, 6, 8}

Puzzle(blanks, changed) ==
    [r \in Idx |-> [c \in Idx |->
        IF Coord(r, c) \in blanks THEN None
        ELSE IF Coord(r, c) \in DOMAIN changed THEN Some(changed[Coord(r, c)])
        ELSE Solved[r][c]]]

\* A puzzle with two completions: the digits 1 and 4 of the first three
\* rows can be exchanged.
TwoWay ==
    Puzzle({Coord(0, 0), Coord(0, 3), Coord(1, 0), Coord(1, 6),
            Coord(2, 3), Coord(2, 6)}, <<>>)

PuzzleFamily ==
    UNION { UNION { {Puzzle(B, f) :
                        f \in {f \in [C -> ChangeDigits] :
                                 \A k \in C : Some(f[k]) # get(Solved, k)}}
                    : C \in {C \in SUBSET (ChangeCells \ B) :
                                 Cardinality(C) <= MaxChanged} }
            : B \in {B \in SUBSET BlankCells : Cardinality(B) <= MaxBlanks} }

Inputs == PuzzleFamily \cup {TwoWay}

Init ==
    /\ pc = "solve"
    /\ input \in Inputs
    /\ grid = input
    /\ stack = <<>>
    /\ ret = None
    /\ result = Pending
    /\ text = <<>>
    /\ edits = 0
    /\ start = None
    /\ path = <<>>

Next ==
    \/ SolveCall
    \/ Terminal
    \/ Skip
    \/ SkipReturn
    \/ Try
    \/ Found
    \/ Exhausted
    \/ SolveReturn

Spec == Init /\ [][Next]_vars

-----------------------------------------------------------------------------
(* validate on a solved grid with one cell overwritten, as test_validate *)

MaxShift == 2

\* Solved with every digit raised by k (9 wraps to 1), transposed if t.
Pattern(k, t) ==
    [r \in Idx |-> [c \in Idx |->
        LET i == IF t THEN c ELSE r
            j == IF t THEN r ELSE c
        IN  Some(((3 * (i % 3) + (i \div 3) + j + k) % 9) + 1)]]

ValidGrids == {Pattern(k, t) : k \in 0..MaxShift, t \in BOOLEAN}

InitValidate ==
    /\ pc = "valid"
    /\ input \in ValidGrids
    /\ grid = input
    /\ stack = <<>>
    /\ ret = None
    /\ result = Pending
    /\ text = <<>>
    /\ edits = 0
    /\ start = None
    /\ path = <<>>

\* test_validate, line 302: sudoku.grid[r][c] = Some(d), d another digit
\* than the cell holds.
Corrupt ==
    /\ pc = "valid"
    /\ \E k \in Coords : \E d \in Digits :
          /\ get(grid, k) # Some(d)
          /\ grid' = [grid EXCEPT ![k.row][k.col] = Some(d)]
    /\ pc' = "corrupted"
    /\ UNCHANGED <<input, stack, ret, result, text, edits, start, path>>

\* sudoku.validate(): Ok(()) when no error was collected, else Err(errors).
Validate ==
    /\ pc \in {"valid", "corrupted"}
    /\ result' = IF validate(grid) = {} THEN Ok(<<>>) ELSE Err(validate(grid))
    /\ pc' = "validated"
    /\ UNCHANGED <<input, grid, stack, ret, text, edits, start, path>>

NextValidate == Corrupt \/ Validate

SpecValidate == InitValidate /\ [][NextValidate]_vars

-----------------------------------------------------------------------------
(* Coord::next applied over and over, as test_next_coord *)

InitCoord ==
    /\ pc = "walk"
    /\ start \in {Some(k) : k \in Coords}
    /\ path = <<Unwrap(start)>>
    /\ input = <<>>
    /\ grid = <<>>
    /\ stack = <<>>
    /\ ret = None
    /\ result = Pending
    /\ text = <<>>
    /\ edits = 0

Last == path[Len(path)]

\* next returned Some(coord): go on from coord.
Step ==
    /\ pc = "walk"
    /\ next(Last) # None
    /\ path' = Append(path, Unwrap(next(Last)))
    /\ UNCHANGED <<pc, input, grid, stack, ret, result, text, edits, start>>

\* next returned None: the walk is over.
Stop ==
    /\ pc = "walk"
    /\ next(Last) = None
    /\ pc' = "end"
    /\ UNCHANGED <<input, grid, stack, ret, result, text, edits, start, path>>

NextCoord == Step \/ Stop

SpecCoord == InitCoord /\ [][NextCoord]_vars

-----------------------------------------------------------------------------
(* from_str and fmt: a text is a sequence of characters *)

MaxEdits == 2

DigitChars == <<"0", "1", "2", "3", "4", "5", "6", "7", "8", "9">>

\* c.to_string().parse::<u8>() on one character: Some(value) for an ASCII
\* digit, None (a ParseIntError) for any other character.
parse_u8(c) ==
    IF \E i \in 1..10 : DigitChars[i] = c
    THEN Some((CHOOSE i \in 1..10 : DigitChars[i] = c) - 1)
    ELSE None

RECURSIVE lines(_)
\* str::lines: the text cut at every "\n"; a final "\n" ends the last
\* line and starts no empty one.
lines(s) ==
    IF s = <<>> THEN <<>>
    ELSE IF \E i \in 1..Len(s) : s[i] = "\n"
         THEN LET i == CHOOSE i \in 1..Len(s) :
                          s[i] = "\n" /\ \A j \in 1..(i - 1) : s[j] # "\n"
              IN  <<SubSeq(s, 1, i - 1)>> \o lines(SubSeq(s, i + 1, Len(s)))
         ELSE <<s>>

\* A Vec: the elements of a sequence, indexed from 0.
Vec(seq) == [i \in 0..(Len(seq) - 1) |-> seq[i + 1]]

\* parse_row: Ok(cells) unless a character is neither '.' nor a digit.
parse_row(line) ==
    IF \E i \in 1..Len(line) : line[i] # "." /\ parse_u8(line[i]) = None
    THEN Err(<<"ParseInt">>)
    ELSE Ok(Vec([i \in 1..Len(line) |->
                    IF line[i] = "." THEN None ELSE parse_u8(line[i])]))

\* from_str: every line parsed, the first error returned; then the size
\* check on the number of rows and on the length of row 0.
from_str(s) ==
    LET rows == [i \in 1..Len(lines(s)) |-> parse_row(lines(s)[i])]
    IN  IF \E i \in 1..Len(rows) : rows[i].kind = "Err"
        THEN Err(<<"ParseInt">>)
        ELSE LET g == Vec([i \in 1..Len(rows) |-> Unwrap(rows[i].value)])
             IN  IF Cardinality(DOMAIN g) # 9
                    \/ Cardinality(DOMAIN g[0]) # 9
                 THEN Err(<<"InvalidSize">>)
                 ELSE Ok(g)

RECURSIVE Concat(_)
Concat(seqs) ==
    IF seqs = <<>> THEN <<>> ELSE Head(seqs) \o Concat(Tail(seqs))

\* Display::fmt: a row is its cells, "." for None and the digit for
\* Some(n), then a newline.
fmt(g) ==
    Concat([r \in 1..9 |->
        [c \in 1..9 |->
            IF g[r - 1][c - 1] = None THEN "."
            ELSE DigitChars[Unwrap(g[r - 1][c - 1]) + 1]] \o <<"\n">>])

\* The texts from_str is run on: the text of a puzzle, with up to MaxEdits
\* characters replaced, inserted or removed at some places.
BaseText == fmt(Puzzle(BlankCells, <<>>))

EditPositions == {1, 9, 10, 11, 45, 89, 90}

EditChars == {".", "0", "5", "x", "\n"}

InitParse ==
    /\ pc = "text"
    /\ text = BaseText
    /\ edits = 0
    /\ input = <<>>
    /\ grid = <<>>
    /\ stack = <<>>
    /\ ret = None
    /\ result = Pending
    /\ start = None
    /\ path = <<>>

Replace ==
    /\ pc = "text" /\ edits < MaxEdits
    /\ \E p \in EditPositions \cap (1..Len(text)) : \E c \in EditChars :
          /\ text[p] # c
          /\ text' = [text EXCEPT ![p] = c]
    /\ edits' = edits + 1
    /\ UNCHANGED <<pc, input, grid, stack, ret, result, start, path>>

Insert ==
    /\ pc = "text" /\ edits < MaxEdits
    /\ \E p \in EditPositions \cap (1..(Len(text) + 1)) : \E c \in EditChars :
          text' = SubSeq(text, 1, p - 1) \o <<c>> \o SubSeq(text, p, Len(text))
    /\ edits' = edits + 1
    /\ UNCHANGED <<pc, input, grid, stack, ret, result, start, path>>

Remove ==
    /\ pc = "text" /\ edits < MaxEdits
    /\ \E p \in EditPositions \cap (1..Len(text)) :
          text' = SubSeq(text, 1, p - 1) \o SubSeq(text, p + 1, Len(text))
    /\ edits' = edits + 1
    /\ UNCHANGED <<pc, input, grid, stack, ret, result, start, path>>

\* text.parse::<Sudoku>()
Parse ==
    /\ pc = "text"
    /\ result' = from_str(text)
    /\ pc' = "parsed"
    /\ UNCHANGED <<input, grid, stack, ret, text, edits, start, path>>

NextParse == Replace \/ Insert \/ Remove \/ Parse

SpecParse == InitParse /\ [][NextParse]_vars

-----------------------------------------------------------------------------
(* What the claims speak of *)

Rows == {{Coord(r, c) : c \in Idx} : r \in Idx}

Cols == {{Coord(r, c) : r \in Idx} : c \in Idx}

Boxes ==
    {{Coord(3 * br + i, 3 * bc + j) : i \in 0..2, j \in 0..2} :
        br \in 0..2, bc \in 0..2}

Groups == Rows \cup Cols \cup Boxes

EmptyCells(g) == {k \in Coords : get(g, k) = None}

\* Every row, column and box holds each digit 1..9 exactly once.
IsSolved(g) ==
    \A G \in Groups : \A d \in Digits :
        Cardinality({k \in G : get(g, k) = Some(d)}) = 1

\* Two cells of one row, column or box hold the same digit.
HasRepeat(g) ==
    \E G \in Groups :
        Cardinality({k \in G : get(g, k) # None})
            > Cardinality({get(g, k) : k \in G} \ {None})

\* h keeps every digit g holds.
Keeps(g, h) ==
    \A k \in Coords : get(g, k) # None => get(h, k) = get(g, k)

\* The digits no filled cell of a group of k holds.
Allowed(g, k) ==
    {d \in Digits :
        \A G \in Groups : k \in G => \A j \in G : get(g, j) # Some(d)}

RECURSIVE Fill(_, _)
\* Every way to fill the cells E of g in which no cell repeats a digit of
\* one of its groups.
Fill(g, E) ==
    IF E = {} THEN {g}
    ELSE LET k == CHOOSE k \in E : TRUE
         IN  UNION {Fill([g EXCEPT ![k.row][k.col] = Some(d)], E \ {k}) :
                        d \in Allowed(g, k)}

\* The valid completions of g: the solved grids that keep g's digits.
Completions(g) == {h \in Fill(g, EmptyCells(g)) : IsSolved(h)}

Returned == Unwrap(result.value)

Done == pc = "done"

-----------------------------------------------------------------------------
C2_Fidelity ==
    (Done /\ result.kind = "Ok") => Keeps(input, Returned)

\* C3 (completeness of solve): for an input that has a valid completion,
\* solve returns a grid and not Unsolvable, whatever order the candidates
\* are tried in.
C3_Completeness ==
    (Done /\ Completions(input) # {}) => result.kind = "Ok"

\* solve has returned on an input with a valid completion and at least
\* four empty cells.
C3_Witness ==
    /\ Done
    /\ Cardinality(EmptyCells(input)) >= 4
    /\ Completions(input) # {}

\* C4 (contradictory clues are rejected): for an input in which two cells
\* of one row, column or box hold the same digit, solve returns Unsolvable
\* and never a grid, wherever the two cells lie.
C4_ContradictionRejected ==
    (Done /\ HasRepeat(input)) => result = Err(Unsolvable)

\* C5 (determinism on well-formed puzzles): for an input with exactly one
\* valid completion S, solve returns exactly S, in every order the
\* candidates of a cell are iterated in.
C5_UniqueSolutionReturned ==
    (Done /\ Cardinality(Completions(input)) = 1) =>
        /\ result.kind = "Ok"
        /\ Returned \in Completions(input)

\* solve has returned on an input with one completion, reached through a
\* cell that had more than one candidate.
C5_Witness ==
    /\ Done /\ result.kind = "Ok"
    /\ Cardinality(Completions(input)) = 1
    /\ \E k \in EmptyCells(input) :
           Cardinality(get_possible_numbers(input, k)) >= 2

\* C9 (backtracking restores the grid): whenever a call of solve_rec
\* returns false the grid is the grid that call was entered with; if
\* solve_rec((0,0)) has returned false the working grid equals the input.
C9_BacktrackRestores ==
    [][ /\ (/\ pc = "search" /\ stack # <<>>
            /\ stack' = Tail(stack) /\ ret' = Some(FALSE))
           => grid' = Top.entry
        /\ (pc' = "search" /\ stack' = <<>> /\ ret' = Some(FALSE))
           => grid' = input' ]_vars

\* solve_rec((0,0)) has returned false after its loop tried candidates
\* for the first cell.
C9_Witness ==
    /\ pc = "search" /\ stack = <<>> /\ ret = Some(FALSE)
    /\ get(input, Coord(0, 0)) = None
    /\ get_possible_numbers(input, Coord(0, 0)) # {}

-----------------------------------------------------------------------------
\* The cells in which h differs from g.
Changed(g, h) == {k \in Coords : get(g, k) # get(h, k)}

\* C6 (the validator reports all affected groups): on a valid complete
\* grid validate returns success; after the digit of one cell (r,c) is
\* replaced by another digit of 1..9, validate returns an error whose set
\* is exactly {InvalidRow(r), InvalidCol(c), InvalidHouse(r/3, c/3)}.
C6_AllAffectedGroups ==
    (pc = "validated" /\ IsSolved(input)) =>
        IF grid = input THEN result = Ok(<<>>)
        ELSE \A k \in Changed(input, grid) :
                result = Err({InvalidRow(k.row), InvalidCol(k.col),
                              InvalidHouse(Coord(k.row \div 3, k.col \div 3))})

\* validate has run on a valid grid whose cell (4,6) was overwritten, the
\* cell of test_validate; its house (1,2) is off the diagonal.
C6_Witness ==
    /\ pc = "validated"
    /\ IsSolved(input)
    /\ Changed(input, grid) = {Coord(4, 6)}

\* The place of a coordinate in row-major order, from 0.
RowMajor(k) == 9 * k.row + k.col

\* C8 (successor law): starting at (0,0), the coordinates next produces
\* are the 81 cells in row-major order, each once, each with row < 9 and
\* col < 9 ((r,c) -> (r,c+1) when c < 8, (r,8) -> (r+1,0) when r < 8), and
\* next of (8,8) is None.  Stated for every start: the i-th coordinate of
\* the walk is the i-th cell after the start in row-major order, and the
\* walk ends at (8,8) only.
C8_SuccessorLaw ==
    pc \in {"walk", "end"} =>
        /\ \A i \in 1..Len(path) :
              /\ path[i] \in Coords
              /\ RowMajor(path[i]) = RowMajor(Unwrap(start)) + i - 1
        /\ \A i \in 1..(Len(path) - 1) :
              path[i + 1] =
                  IF path[i].col < 8 THEN Coord(path[i].row, path[i].col + 1)
                  ELSE Coord(path[i].row + 1, 0)
        /\ Last = Coord(8, 8) => next(Last) = None
        /\ pc = "end" => Last = Coord(8, 8)
        /\ (pc = "end" /\ start = Some(Coord(0, 0))) =>
              /\ Len(path) = 81
              /\ {path[i] : i \in 1..81} = Coords

\* The walk from (0,0) has ended.
C8_Witness ==
    /\ pc = "end"
    /\ start = Some(Coord(0, 0))
    /\ Len(path) = 81

-----------------------------------------------------------------------------
\* The text has exactly 9 lines of exactly 9 characters, each one of
\* '1'..'9' or '.'.
WellFormed(s) ==
    /\ Len(lines(s)) = 9
    /\ \A i \in 1..Len(lines(s)) :
          /\ Len(lines(s)[i]) = 9
          /\ \A j \in 1..Len(lines(s)[i]) :
                lines(s)[i][j] \in {"."} \cup {DigitChars[d + 1] : d \in 1..9}

\* C7 (parsing accepts only well-formed input): from_str returns a grid
\* only if the text has exactly 9 lines, every line has exactly 9
\* characters and every character is one of '1'..'9' or '.'; every other
\* text yields a parse error and no grid.
C7_OnlyWellFormedParses ==
    (pc = "parsed" /\ result.kind = "Ok") => WellFormed(text)

=============================================================================
